---------------------------- MODULE Spec2Model ----------------------------
(***************************************************************************)
(* Model of the reconciliation engine of scm/process.py:                   *)
(*   Processor         post_entries / create_objects / analyze_results,    *)
(*                     reorder_rules / check_and_reorder_rules             *)
(*   SCMObjectManager  process_objects, get_new_and_updated_entries,       *)
(*                     update_existing_entries, process_security_rules     *)
(* The remote gateway (api_handler.get/post/put) is the environment.       *)
(***************************************************************************)
EXTENDS Integers, Sequences, FiniteSets, TLC

VARIABLES
  remote,            \* remote rule list per rulebase position (what get returns)
  op,                \* the operation the caller invoked
  pc,                \* position of the engine's single control thread
  parsed_rules,      \* parsed_data: desired rule records per position
  rules_snapshot,    \* process_security_rules: current_rules_pre / current_rules_post
  pos,               \* rulebase position being reconciled
  original_rules,    \* desired rule records of that position
  current_rules,     \* reorder_rules: the current_rules parameter / local
  current_rule_ids,  \* reorder_rules: name -> id lookup (set of <<name, id>>)
  current_order,     \* current order as last computed by the engine
  desired_order,     \* desired order as last computed by the engine
  attempts,          \* reorder_rules: attempts
  max_workers,       \* Processor.max_workers
  poolSize,          \* max_workers of the ThreadPoolExecutor of the open batch
  tasks,             \* futures of the open batch, in submission order
  exitReason,        \* how the reconciler left its loops
  raised,            \* an exception left the running operation
  log,               \* kinds of log records written
  nFetch,            \* history: rule fetches issued by the reconciler
  nBatch,            \* history: move batches submitted
  movesSubmitted,    \* history: move calls submitted
  movesDone,         \* history: move calls completed
  orderStamp,        \* history: movesDone when current_order was read
  batchBasis,        \* history: orderStamp of the order the open batch was computed from
  batchPrior,        \* history: movesSubmitted before the open batch
  remote0,           \* history: the remote rule lists at the start
  parsed_data,       \* desired records per object type
  current_objects,   \* get_current_objects: fetched records per object type
  new_entries,       \* get_new_and_updated_entries: new records per type
  updated_entries,   \* get_new_and_updated_entries: records to update per type
  pe_entries,        \* post_entries: the entries parameter
  results,           \* create_objects: results, in completion order
  summaries,         \* the (initial, created, exists, errors, names) of each log_summary
  ret,               \* where control goes when post_entries returns
  remoteObjs,        \* remote records per object type (what get returns)
  fetch_workers,     \* process_objects: the max_workers parameter
  pe_target,         \* post_entries: the object type / rulebase position posted to
  loop_t,            \* index of `for obj_type in self.obj_types`
  loop_i,            \* index of `for entry in entries`
  puts,              \* history: the put calls issued, in order
  inflight,          \* remote calls a worker or the control thread is executing
  batchId,           \* history: executor batches launched
  nu_new,        \* needs_update: the new_object argument
  nu_current,    \* needs_update: the current_object argument
  nu_result,         \* needs_update: the value returned
  no_endpoint,       \* the classes whose _endpoint is None
  failed_fetch       \* history: the object types whose fetch raised

vars == << remote, op, pc, parsed_rules, rules_snapshot, pos, original_rules,
           current_rules, current_rule_ids, current_order, desired_order, attempts,
           max_workers, poolSize, tasks, exitReason, raised, log, nFetch, nBatch,
           movesSubmitted, movesDone, orderStamp, batchBasis, batchPrior, remote0,
           parsed_data, current_objects, new_entries, updated_entries,
           pe_entries, results, summaries, ret, remoteObjs, fetch_workers, pe_target,
           loop_t, loop_i, puts, inflight, batchId, nu_new, nu_current,
           nu_result, no_endpoint, failed_fetch >>

pipeVars == << remoteObjs, fetch_workers, pe_target, loop_t, loop_i, puts >>

calls == << inflight, batchId >>

postVars == << pe_entries, results, summaries, ret >>

diffVars == << parsed_data, current_objects, new_entries, updated_entries >>

compared == << nu_new, nu_current, nu_result >>

given == << op, parsed_rules, remote0, compared, no_endpoint >>

inputs == << given, failed_fetch >>

ruleLocals == << rules_snapshot, pos, original_rules, current_rules, current_rule_ids,
                current_order, desired_order, attempts, exitReason >>
history == << nFetch, nBatch, movesSubmitted, movesDone, orderStamp,
             batchBasis, batchPrior >>

---------------------------------------------------------------------------
(* Bounds of the model *)

MaxRules == 3
MaxWorkers == 2
MaxEntries == 2
MaxCurrent == 2

(* Program constants *)

max_attempts == 8
RuleWorkers == 4

---------------------------------------------------------------------------
(* Data *)

Positions == {"pre", "post"}
Scope == "F1"
OtherFolder == "F2"
RuleNames == {"A", "B", "C", "default"}

IdOf == [n \in RuleNames |->
           CASE n = "A" -> "id1" [] n = "B" -> "id2" [] n = "C" -> "id3"
             [] OTHER -> "id0"]

\* A remote rule record: name, id and folder as annotated by get.
ScopedRules == {[name |-> n, id |-> IdOf[n], folder |-> Scope] : n \in RuleNames}
ForeignRules == {[name |-> "A", id |-> "id9", folder |-> OtherFolder]}
RemoteRuleRecords == ScopedRules \cup ForeignRules

ObjTypes == <<"Tag", "Address">>
ObjNames == {"o1", "o2"}

\* A desired rule record (only the name takes part in ordering).
DesiredRuleRecords == {[name |-> n] : n \in RuleNames}

InjSeqs(S, n) ==
  UNION {{s \in [1..k -> S] : \A i, j \in 1..k : s[i] = s[j] => i = j} : k \in 0..n}

Range(s) == {s[i] : i \in 1..Len(s)}

NamesOf(s) == [i \in 1..Len(s) |-> s[i].name]

\* list.index: position of the first occurrence; 0 stands for ValueError.
Index(s, x) ==
  IF x \in Range(s) THEN CHOOSE i \in 1..Len(s) : s[i] = x /\ \A j \in 1..(i-1) : s[j] # x
  ELSE 0

NotDefault(n) == n # "default"
InScope(r) == r.folder = Scope

---------------------------------------------------------------------------
(* The remote's move primitive: relocate the rule with id rid immediately  *)
(* before the rule with id did.                                             *)

IdsOf(s) == {s[i].id : i \in 1..Len(s)}

Without(s, rid) == SelectSeq(s, LAMBDA r : r.id # rid)

RuleWithId(s, rid) == CHOOSE r \in Range(s) : r.id = rid

IdIndex(s, rid) == CHOOSE i \in 1..Len(s) : s[i].id = rid

\* Mutant: the rule lands immediately after the destination rule.
MoveAfter(s, rid, did) ==
  IF rid \in IdsOf(s) /\ did \in IdsOf(s) /\ rid # did
  THEN LET rest == Without(s, rid)
           k == IdIndex(rest, did)
       IN SubSeq(rest, 1, k) \o <<RuleWithId(s, rid)>> \o SubSeq(rest, k + 1, Len(rest))
  ELSE s

MoveBefore(s, rid, did) ==
  IF rid \in IdsOf(s) /\ did \in IdsOf(s) /\ rid # did
  THEN LET rest == Without(s, rid)
           k == IdIndex(rest, did)
       IN SubSeq(rest, 1, k - 1) \o <<RuleWithId(s, rid)>> \o SubSeq(rest, k, Len(rest))
  ELSE s

---------------------------------------------------------------------------
(* Processor.check_and_reorder_rules / Processor.reorder_rules: pure parts *)

\* [rule for rule in all_current_rules if rule['folder'] == folder_scope]
FolderFiltered(all) == SelectSeq(all, InScope)

\* [rule['name'] for rule in current_rules if rule['name'] != 'default']
FetchedOrder(rules) == SelectSeq(NamesOf(rules), NotDefault)

\* Mutant: the desired order keeps its 'default' entries.
CheckDesiredOrderRaw(orig) == NamesOf(orig)

\* [rule['name'] for rule in original_rules if rule['name'] != 'default']
CheckDesiredOrder(orig) == SelectSeq(NamesOf(orig), NotDefault)

\* {rule['name']: rule['id'] for rule in current_rules}: the last record of a
\* name wins.
RuleIds(rules) ==
  [n \in Range(NamesOf(rules)) |->
     LET k == CHOOSE i \in 1..Len(rules) :
                rules[i].name = n /\ \A j \in (i+1)..Len(rules) : rules[j].name # n
     IN rules[k].id]

\* [rule['name'] for rule in current_rules]
EntryCurrentOrder(rules) == NamesOf(rules)

\* Mutant: the desired names are taken as they are.
EntryDesiredOrderAll(orig, ids) == NamesOf(orig)

\* [rule['name'] for rule in original_rules if rule['name'] in current_rule_ids]
EntryDesiredOrder(orig, ids) == SelectSeq(NamesOf(orig), LAMBDA n : n \in DOMAIN ids)

\* current_order.index(...) raises ValueError for some consecutive pair.
LookupFails(cur, des) ==
  \E i \in 1..(Len(des) - 1) : Index(cur, des[i]) = 0 \/ Index(cur, des[i + 1]) = 0

\* Mutant: the comparison of the two indices is reversed.
InvertedPairsFlipped(cur, des) ==
  {i \in 1..(Len(des) - 1) : Index(cur, des[i]) < Index(cur, des[i + 1])}

\* The pairs (a, b), consecutive in desired_order, with
\* current_order.index(a) > current_order.index(b).
InvertedPairs(cur, des) ==
  {i \in 1..(Len(des) - 1) : Index(cur, des[i]) > Index(cur, des[i + 1])}

RECURSIVE MovesFrom(_, _, _, _)
MovesFrom(i, cur, des, ids) ==
  IF i > Len(des) - 1 THEN << >>
  ELSE (IF i \in InvertedPairs(cur, des)
        THEN << [kind |-> "move", subject |-> des[i], before |-> des[i + 1],
                 rule |-> ids[des[i]], dest |-> ids[des[i + 1]],
                 st |-> "queued", out |-> "none"] >>
        ELSE << >>) \o MovesFrom(i + 1, cur, des, ids)

\* The moves list built by one iteration of the while loop.
PlannedMoves(cur, des, ids) == MovesFrom(1, cur, des, ids)

\* Mutant: reorder_rules answers True whatever it did.
ReorderReturnTrue(anyMoves) == "True"

\* reorder_rules has no return statement: the caller receives None.
ReorderReturn(anyMoves) == "None"

Truthy(v) == v = "True"

---------------------------------------------------------------------------
(* ThreadPoolExecutor: tasks start in submission order, at most poolSize   *)
(* of them run at a time.                                                   *)

Running == {i \in 1..Len(tasks) : tasks[i].st = "running"}
Queued == {i \in 1..Len(tasks) : tasks[i].st = "queued"}
AllDone == \A i \in 1..Len(tasks) : tasks[i].st = "done"

\* Mutant: the pool starts a task whenever one is queued.
WorkerAlwaysFree == TRUE

WorkerFree == Cardinality(Running) < poolSize

\* The remote call that task i of the open batch makes.
Call(i) ==
  [kind |-> tasks[i].kind,
   target |-> IF tasks[i].kind = "move" THEN pos
              ELSE IF tasks[i].kind = "create" THEN pe_target
              ELSE tasks[i].type,
   i |-> i, batch |-> batchId]

StartTask ==
  /\ Queued # {}
  /\ WorkerFree
  /\ LET i == CHOOSE k \in Queued : \A j \in Queued : k <= j
     IN /\ tasks' = [tasks EXCEPT ![i].st = "running"]
        /\ inflight' = inflight \cup {Call(i)}
  /\ UNCHANGED << pipeVars, batchId, postVars, diffVars, inputs, remote, pc, ruleLocals, max_workers, poolSize, raised, log, history >>

---------------------------------------------------------------------------
(* SCMObjectManager.fetch_rules, RuleProcessor.is_rule_order_correct,      *)
(* SCMObjectManager.reorder_rules_if_needed                                 *)

\* [o for o in all_objects if 'name' in o and 'folder' in o]
FetchRules(all) == SelectSeq(all, LAMBDA o : "name" \in DOMAIN o /\ "folder" \in DOMAIN o)

is_rule_order_correct(current, desired) == NamesOf(current) = NamesOf(desired)

\* Where control goes when the reconciliation of position pos has ended:
\* process_security_rules goes on from 'pre' to 'post'.
AfterPosition ==
  IF op = "process_security_rules" /\ pos = "pre"
  THEN pc' = "rin" /\ pos' = "post"
  ELSE pc' = "done" /\ pos' = pos

reorder_rules_if_needed ==
  /\ pc = "rin"
  /\ original_rules' = parsed_rules[pos]
  /\ nFetch' = 0
  /\ nBatch' = 0
  /\ IF ~ is_rule_order_correct(rules_snapshot[pos], parsed_rules[pos])
     THEN /\ max_workers' = RuleWorkers
          /\ exitReason' = "none"
          /\ pc' = "car_fetch"
          /\ pos' = pos
     ELSE /\ exitReason' = "in_order"
          /\ AfterPosition
          /\ UNCHANGED max_workers
  /\ UNCHANGED << pipeVars, calls, postVars, diffVars, inputs, remote, rules_snapshot, current_rules, current_rule_ids,
                  current_order, desired_order, attempts, poolSize, tasks, raised, log,
                  movesSubmitted, movesDone, orderStamp, batchBasis, batchPrior >>

---------------------------------------------------------------------------
(* PanApiHandler.get_endpoint *)

\* self.sec_obj, the class of the security rules.
SecObj == "SecurityRule"

\* The class whose endpoint a call on `target` needs: an object type, or
\* sec_obj where the target is a rulebase position.
EntryClass(target) == IF target \in Positions THEN SecObj ELSE target

\* PanApiHandler.get_endpoint returns the endpoint; it raises
\* NotImplementedError where _endpoint is None.
get_endpoint(cls) == cls \notin no_endpoint

---------------------------------------------------------------------------
(* Processor.check_and_reorder_rules *)

\* One pass of `while not rules_in_correct_order`: the endpoint, the get, the
\* two orders and the comparison; on a mismatch the call of reorder_rules up to its loop head.
CheckOrder ==
  /\ pc = "car_fetch"
  /\ IF ~ get_endpoint(SecObj)
     THEN /\ raised' = "NotImplementedError"
          /\ pc' = "raised"
          /\ UNCHANGED << ruleLocals, log, nFetch, orderStamp >>
     ELSE /\ raised' = raised
          /\ LET rules == FolderFiltered(remote[pos])
                 cur == FetchedOrder(rules)
                 des == CheckDesiredOrder(original_rules)
             IN /\ nFetch' = nFetch + 1
                /\ orderStamp' = movesDone
                /\ current_rules' = rules
                /\ IF cur # des
                   THEN /\ log' = log \cup {"reordering"}
                        /\ current_rule_ids' = RuleIds(rules)
                        /\ current_order' = EntryCurrentOrder(rules)
                        /\ desired_order' = EntryDesiredOrder(original_rules, RuleIds(rules))
                        /\ attempts' = 0
                        /\ exitReason' = "none"
                        /\ pc' = "rr_loop"
                        /\ pos' = pos
                   ELSE /\ current_order' = cur
                        /\ desired_order' = des
                        /\ exitReason' = "converged"
                        /\ AfterPosition
                        /\ UNCHANGED << current_rule_ids, attempts, log >>
  /\ UNCHANGED << pipeVars, calls, postVars, diffVars, inputs, rules_snapshot, remote, original_rules, max_workers, poolSize,
                  tasks,
                  nBatch, movesSubmitted, movesDone, batchBasis, batchPrior >>

\* reorder_rules returned: rules_in_correct_order = not moves_made.
AfterReorder(reason, anyMoves) ==
  /\ exitReason' = reason
  /\ IF Truthy(ReorderReturn(anyMoves))
     THEN pc' = "car_fetch" /\ pos' = pos
     ELSE AfterPosition

---------------------------------------------------------------------------
(* Processor.reorder_rules *)

\* The while condition and, inside the loop, the computation of the moves up
\* to the submission of the batch.
ReorderLoop ==
  /\ pc = "rr_loop"
  /\ IF current_order = desired_order
     THEN /\ AfterReorder("converged", nBatch > 0)
          /\ UNCHANGED << attempts, batchId, tasks, poolSize, raised, nBatch, movesSubmitted,
                          batchBasis, batchPrior >>
     ELSE IF attempts >= max_attempts
     THEN /\ AfterReorder("budget", nBatch > 0)
          /\ UNCHANGED << attempts, batchId, tasks, poolSize, raised, nBatch, movesSubmitted,
                          batchBasis, batchPrior >>
     ELSE /\ attempts' = attempts + 1
          /\ IF LookupFails(current_order, desired_order)
             THEN /\ raised' = "ValueError"
                  /\ pc' = "raised"
                  /\ pos' = pos
                  /\ UNCHANGED << exitReason, batchId, tasks, poolSize, nBatch, movesSubmitted,
                                  batchBasis, batchPrior >>
             ELSE LET moves == PlannedMoves(current_order, desired_order, current_rule_ids)
                  IN IF moves = << >>
                     THEN /\ AfterReorder("no_moves", nBatch > 0)
                          /\ UNCHANGED << batchId, tasks, poolSize, raised, nBatch, movesSubmitted,
                                          batchBasis, batchPrior >>
                     ELSE /\ tasks' = moves
                          /\ poolSize' = max_workers
                          /\ nBatch' = nBatch + 1
                          /\ batchId' = batchId + 1
                          /\ batchPrior' = movesSubmitted
                          /\ batchBasis' = orderStamp
                          /\ movesSubmitted' = movesSubmitted + Len(moves)
                          /\ pc' = "rr_moving"
                          /\ pos' = pos
                          /\ UNCHANGED << exitReason, raised >>
  /\ UNCHANGED << pipeVars, inflight, postVars, diffVars, inputs, rules_snapshot, remote,
                  original_rules, current_rules, current_rule_ids,
                  current_order, desired_order, max_workers, log, nFetch, movesDone,
                  orderStamp >>

\* A move call returns success: the remote relocated the rule.
MoveSucceeds(i) ==
  /\ pc = "rr_moving"
  /\ i \in Running
  /\ remote' = [remote EXCEPT ![pos] = MoveBefore(remote[pos], tasks[i].rule, tasks[i].dest)]
  /\ tasks' = [tasks EXCEPT ![i].st = "done", ![i].out = "success"]
  /\ movesDone' = movesDone + 1
  /\ inflight' = inflight \ {Call(i)}
  /\ UNCHANGED << pipeVars, batchId, postVars, diffVars, inputs, pc, ruleLocals, max_workers, poolSize, raised, log, nFetch, nBatch,
                  movesSubmitted, orderStamp, batchBasis, batchPrior >>

\* A move call returns a non-success status: the remote list is unchanged.
MoveFails(i) ==
  /\ pc = "rr_moving"
  /\ i \in Running
  /\ tasks' = [tasks EXCEPT ![i].st = "done", ![i].out = "error"]
  /\ movesDone' = movesDone + 1
  /\ inflight' = inflight \ {Call(i)}
  /\ UNCHANGED << pipeVars, batchId, postVars, diffVars, inputs, remote, pc, ruleLocals, max_workers, poolSize, raised, log, nFetch,
                  nBatch, movesSubmitted, orderStamp, batchBasis, batchPrior >>

\* A move call raises.
MoveRaises(i) ==
  /\ pc = "rr_moving"
  /\ i \in Running
  /\ tasks' = [tasks EXCEPT ![i].st = "done", ![i].out = "raised"]
  /\ movesDone' = movesDone + 1
  /\ inflight' = inflight \ {Call(i)}
  /\ UNCHANGED << pipeVars, batchId, postVars, diffVars, inputs, remote, pc, ruleLocals, max_workers, poolSize, raised, log, nFetch,
                  nBatch, movesSubmitted, orderStamp, batchBasis, batchPrior >>

\* Responses read by `for future in futures: future.result()` before the first
\* future that raises.
ReadResponses ==
  {i \in 1..Len(tasks) : \A j \in 1..i : tasks[j].out # "raised"}

\* The executor's with-block ends (every future is done); the responses are
\* read in submission order and the first exception leaves reorder_rules.
JoinMoves ==
  /\ pc = "rr_moving"
  /\ AllDone
  /\ log' = log \cup (IF \E i \in ReadResponses : tasks[i].out # "success"
                      THEN {"move_error"} ELSE {})
  /\ IF \E i \in 1..Len(tasks) : tasks[i].out = "raised"
     THEN /\ raised' = "MoveError"
          /\ pc' = "raised"
     ELSE /\ pc' = "rr_refetch"
          /\ UNCHANGED raised
  /\ tasks' = << >>
  /\ UNCHANGED << pipeVars, calls, postVars, diffVars, inputs, remote, ruleLocals, max_workers, poolSize, history >>

\* Mutant: the loop goes on with the order it already has.
RefetchStale ==
  /\ pc = "rr_refetch"
  /\ pc' = "rr_loop"
  /\ UNCHANGED << pipeVars, calls, postVars, diffVars, inputs, remote, ruleLocals, max_workers, poolSize, tasks, raised, log,
                  history >>

\* Lines 196-198: the get after the batch and the new current_order.
Refetch ==
  /\ pc = "rr_refetch"
  /\ nFetch' = nFetch + 1
  /\ orderStamp' = movesDone
  /\ current_rules' = FolderFiltered(remote[pos])
  /\ current_order' = FetchedOrder(FolderFiltered(remote[pos]))
  /\ pc' = "rr_loop"
  /\ UNCHANGED << pipeVars, calls, postVars, diffVars, inputs, rules_snapshot, remote, pos, original_rules, current_rule_ids,
                  desired_order, attempts,
                  exitReason, max_workers, poolSize, tasks, raised, log, nBatch,
                  movesSubmitted, movesDone, batchBasis, batchPrior >>

---------------------------------------------------------------------------
(* The remote as an environment of the reconciler *)

Reverse(q) == [k \in 1..Len(q) |-> q[Len(q) + 1 - k]]

\* Another writer flips the remote order between two reads of the engine: a
\* remote whose order oscillates.
RemoteOscillates ==
  /\ pc \in {"rin", "car_fetch", "rr_refetch"}
  /\ Len(remote[pos]) > 1
  /\ remote' = [remote EXCEPT ![pos] = Reverse(remote[pos])]
  /\ UNCHANGED << pipeVars, calls, postVars, diffVars, inputs, pc, ruleLocals, max_workers, poolSize, tasks, raised, log, history >>

---------------------------------------------------------------------------
(* check_and_reorder_rules on one rulebase position *)

\* Control state of an engine that has not started.
Idle ==
  /\ pos = "pre"
  /\ original_rules = << >>
  /\ current_rules = << >>
  /\ current_rule_ids = << >>
  /\ current_order = << >>
  /\ desired_order = << >>
  /\ attempts = 0
  /\ poolSize = 0
  /\ tasks = << >>
  /\ exitReason = "none"
  /\ raised = "none"
  /\ failed_fetch = {}
  /\ log = {}
  /\ nFetch = 0
  /\ nBatch = 0
  /\ movesSubmitted = 0
  /\ movesDone = 0
  /\ orderStamp = 0
  /\ batchBasis = 0
  /\ batchPrior = 0
  /\ new_entries = << >>
  /\ updated_entries = << >>
  /\ results = << >>
  /\ summaries = << >>
  /\ ret = "done"
  /\ pe_target = "none"
  /\ loop_t = 1
  /\ loop_i = 1
  /\ puts = << >>
  /\ inflight = {}
  /\ batchId = 0

\* No call of needs_update on its own.
NoCompare ==
  /\ nu_new = << >>
  /\ nu_current = << >>
  /\ nu_result = "unset"

\* Every class names its endpoint, as the classes of obj.py do.
AllEndpoints == no_endpoint = {}

\* An engine that works on no objects.
NoObjects ==
  /\ parsed_data = << >>
  /\ current_objects = << >>
  /\ remoteObjs = << >>
  /\ fetch_workers = 1

\* reorder_rules_if_needed for position 'pre', called with the snapshot that
\* process_security_rules read from the remote.
InitReorder ==
  /\ op = "reorder_rules_if_needed"
  /\ pc = "rin"
  /\ remote \in {[p \in Positions |-> IF p = "pre" THEN s ELSE << >>] :
                   s \in InjSeqs(RemoteRuleRecords, MaxRules)}
  /\ remote0 = remote
  /\ parsed_rules \in {[p \in Positions |-> IF p = "pre" THEN d ELSE << >>] :
                         d \in InjSeqs(DesiredRuleRecords, MaxRules)}
  /\ rules_snapshot = [p \in Positions |-> FolderFiltered(FetchRules(remote[p]))]
  /\ max_workers \in 1..MaxWorkers
  /\ pe_entries = << >>
  /\ NoObjects
  /\ Idle
  /\ NoCompare
  /\ AllEndpoints

\* The remote applies every move atomically and nobody else writes.
NextAtomic ==
  \/ reorder_rules_if_needed
  \/ CheckOrder
  \/ ReorderLoop
  \/ StartTask
  \/ \E i \in 1..Len(tasks) : MoveSucceeds(i)
  \/ JoinMoves
  \/ Refetch

SpecAtomic == InitReorder /\ [][NextAtomic]_vars

FairAtomic == SpecAtomic /\ WF_vars(NextAtomic)

\* Moves may also fail or raise, and the remote order may change under the
\* reconciler.
NextReorder ==
  \/ reorder_rules_if_needed
  \/ CheckOrder
  \/ ReorderLoop
  \/ StartTask
  \/ \E i \in 1..Len(tasks) : MoveSucceeds(i)
  \/ \E i \in 1..Len(tasks) : MoveFails(i)
  \/ \E i \in 1..Len(tasks) : MoveRaises(i)
  \/ JoinMoves
  \/ Refetch
  \/ RemoteOscillates

SpecReorder == InitReorder /\ [][NextReorder]_vars

\* The engine's thread and its workers keep running; the other writer need not.
EngineStep ==
  \/ reorder_rules_if_needed
  \/ CheckOrder
  \/ ReorderLoop
  \/ StartTask
  \/ JoinMoves
  \/ Refetch
  \/ \E i \in 1..Len(tasks) : MoveSucceeds(i) \/ MoveFails(i) \/ MoveRaises(i)

FairReorder == SpecReorder /\ WF_vars(EngineStep)

---------------------------------------------------------------------------
(* Records of object types.  A record is a mapping from field names to     *)
(* values; a value is None, a scalar, a list or a dict.                     *)

\* t: the kind of value; s: the payload of a scalar; q: the items of a list, or
\* the entries [k |-> key, x |-> value] of a dict.
None == [t |-> "none", s |-> "", q |-> << >>]
S(x) == [t |-> "s", s |-> x, q |-> << >>]
L(items) == [t |-> "l", s |-> "", q |-> items]
D(entries) == [t |-> "d", s |-> "", q |-> entries]
EmptyList == L(<< >>)
EmptyDict == D(<< >>)

IsNone(x) == x.t = "none"
IsList(x) == x.t = "l"
IsDict(x) == x.t = "d"

Keys(d) == {d.q[i].k : i \in 1..Len(d.q)}
At(d, key) == (CHOOSE e \in Range(d.q) : e.k = key).x

\* dict.get(key): None when the key is absent.
Get(o, key) == IF key \in DOMAIN o THEN o[key] ELSE None

NameOf(o) == o["name"].s

\* {**parsed_obj, 'id': value}
WithId(o, value) ==
  [k \in DOMAIN o \cup {"id"} |-> IF k = "id" THEN value ELSE o[k]]

\* Mutant: every id counts as present.
NeverFalsy(x) == FALSE

\* `not object_id`: None and the empty string are falsy.
Falsy(x) == IsNone(x) \/ x = S("")

---------------------------------------------------------------------------
(* SCMObjectManager.needs_update *)

\* item1 != item2 on list items that are not both dicts.
\* Mutant: two values always count as different.
PyNotEqualAlways(x, y) == TRUE

PyNotEqual(x, y) == x # y

\* Mutant: an empty list is not taken for an absent value.
EmptyNeverAbsent(value1, value2) == FALSE

\* (value1 == [] and value2 is None) or (value1 is None and value2 == [])
EmptyAgainstAbsent(value1, value2) ==
  (value1 = EmptyList /\ IsNone(value2)) \/ (IsNone(value1) /\ value2 = EmptyList)

RECURSIVE deep_compare(_, _)
deep_compare(value1, value2) ==
  IF EmptyAgainstAbsent(value1, value2)
  THEN FALSE
  ELSE IF IsNone(value1) /\ IsNone(value2) THEN FALSE
  ELSE IF IsNone(value1) \/ IsNone(value2) THEN TRUE
  ELSE IF IsDict(value1) /\ IsDict(value2)
  THEN \E key \in Keys(value1) :
         \/ key \notin Keys(value2)
         \/ deep_compare(At(value1, key), At(value2, key))
  ELSE IF IsList(value1) /\ IsList(value2)
  THEN \/ Len(value1.q) # Len(value2.q)
       \/ \E i \in 1..Len(value1.q) :
            IF IsDict(value1.q[i]) /\ IsDict(value2.q[i])
            THEN deep_compare(value1.q[i], value2.q[i])
            ELSE PyNotEqual(value1.q[i], value2.q[i])
  ELSE PyNotEqual(value1, value2)

\* `not current_object`: an empty mapping.
needs_update(new_object, current_object) ==
  IF DOMAIN current_object = {} THEN FALSE
  ELSE \E key \in DOMAIN new_object \ {"name"} :
         deep_compare(new_object[key], Get(current_object, key))

---------------------------------------------------------------------------
(* SCMObjectManager.get_new_and_updated_entries, for one object type *)

\* The id the gateway gives the record named n of folder f.
ObjIdOf(n, f) == S("id-" \o n \o "-" \o f)

\* entry_type_name.replace(' ', '-'): the class names hold no space.
generate_key_name(entry_type_name) == entry_type_name

\* set(o['name'] for o in current_set if isinstance(o, dict))
CurrentNames(current_set) == {NameOf(current_set[i]) : i \in 1..Len(current_set)}

\* Mutant: the first current record is taken, whatever its name.
ExistingObjFirst(current_set, name) == current_set[1]

\* next(o for o in current_set if o['name'] == name)
ExistingObj(current_set, name) ==
  current_set[CHOOSE i \in 1..Len(current_set) :
                /\ NameOf(current_set[i]) = name
                /\ \A j \in 1..(i - 1) : NameOf(current_set[j]) # name]

\* Mutant: only the first current record is looked at.
IsNewByFirst(parsed_obj, current_set) ==
  current_set = << >> \/ NameOf(parsed_obj) # NameOf(current_set[1])

IsNew(parsed_obj, current_set) == NameOf(parsed_obj) \notin CurrentNames(current_set)

\* Mutant: the id is made up from the name and the target scope.
ParsedObjWithScopeId(parsed_obj, current_set) ==
  WithId(parsed_obj, ObjIdOf(NameOf(parsed_obj), Scope))

ParsedObjWithId(parsed_obj, current_set) ==
  WithId(parsed_obj, Get(ExistingObj(current_set, NameOf(parsed_obj)), "id"))

NeedsQueueing(parsed_obj, current_set) ==
  /\ ~ IsNew(parsed_obj, current_set)
  /\ needs_update(ParsedObjWithId(parsed_obj, current_set),
                  ExistingObj(current_set, NameOf(parsed_obj)))

\* The list new_entries[entry_type_name].
NewOf(parsed, current_set) == SelectSeq(parsed, LAMBDA o : IsNew(o, current_set))

\* The list updated_entries[entry_type_name].
UpdatedOf(parsed, current_set) ==
  LET q == SelectSeq(parsed, LAMBDA o : NeedsQueueing(o, current_set))
  IN [i \in 1..Len(q) |-> ParsedObjWithId(q[i], current_set)]

\* The object types the loop of get_new_and_updated_entries works on.
DiffedTypes == {T \in DOMAIN current_objects : generate_key_name(T) \in DOMAIN parsed_data}

get_new_and_updated_entries ==
  /\ pc = "diff"
  /\ new_entries' =
       [T \in {U \in DiffedTypes : NewOf(parsed_data[generate_key_name(U)],
                                         current_objects[U]) # << >>} |->
          NewOf(parsed_data[generate_key_name(T)], current_objects[T])]
  /\ updated_entries' =
       [T \in {U \in DiffedTypes : UpdatedOf(parsed_data[generate_key_name(U)],
                                             current_objects[U]) # << >>} |->
          UpdatedOf(parsed_data[generate_key_name(T)], current_objects[T])]
  /\ log' = log \cup (IF \E T \in DOMAIN current_objects :
                           generate_key_name(T) \notin DOMAIN parsed_data
                      THEN {"key_not_found"} ELSE {})
  /\ pc' = IF op = "process_objects" THEN "post_new" ELSE "done"
  /\ UNCHANGED << pipeVars, calls, postVars, parsed_data, current_objects, inputs, remote, ruleLocals,
                  max_workers, poolSize, tasks, raised, history >>

\* Desired and fetched records of one object type.
DesiredObjRecords ==
  {[name |-> S(n), a |-> v] : n \in ObjNames, v \in {S("1"), EmptyList}}

FetchedObjRecords ==
  {[name |-> S(n), id |-> ObjIdOf(n, f), folder |-> S(f), a |-> v] :
     n \in ObjNames, f \in {Scope, OtherFolder}, v \in {S("1"), S("2")}}
  \cup {[name |-> S(n), id |-> ObjIdOf(n, f), folder |-> S(f)] :
     n \in ObjNames, f \in {Scope, OtherFolder}}

SeqsUpTo(U, n) == UNION {[1..k -> U] : k \in 0..n}

\* Control and reconciler state of an engine that works on no rules.
NoRules ==
  /\ remote = [p \in Positions |-> << >>]
  /\ remote0 = remote
  /\ parsed_rules = [p \in Positions |-> << >>]
  /\ rules_snapshot = [p \in Positions |-> << >>]

\* get_new_and_updated_entries on the records of one object type.
InitDiff ==
  /\ op = "get_new_and_updated_entries"
  /\ pc = "diff"
  /\ parsed_data \in {[T \in {"Tag"} |-> d] : d \in SeqsUpTo(DesiredObjRecords, MaxEntries)}
  /\ current_objects \in {[T \in {"Tag"} |-> c] : c \in SeqsUpTo(FetchedObjRecords, MaxCurrent)}
  /\ remoteObjs = << >>
  /\ fetch_workers = 1
  /\ pe_entries = << >>
  /\ Idle
  /\ NoCompare
  /\ AllEndpoints
  /\ max_workers = 1
  /\ NoRules

NextDiff == get_new_and_updated_entries

SpecDiff == InitDiff /\ [][NextDiff]_vars

---------------------------------------------------------------------------
(* SCMObjectManager.needs_update on its own *)

\* Values without nesting, and lists and dicts of them.
Atoms == {None, S("1"), S("2"), EmptyList, EmptyDict}

Entry(key, value) == [k |-> key, x |-> value]

Over(V) ==
  {L(<<v>>) : v \in V} \cup {D(<<Entry("x", v)>>) : v \in V}

FlatValues ==
  Atoms \cup Over(Atoms)
    \cup {L(<<v, w>>) : v, w \in Atoms \ {None}}
    \cup {D(<<Entry("x", v), Entry("y", w)>>) : v, w \in Atoms \ {None}}

NestedValues == FlatValues \cup Over(FlatValues)

\* A record with a name and, or not, a field a.
ComparedRecords ==
  {[name |-> S("o1")]} \cup {[name |-> S("o1"), a |-> v] : v \in NestedValues}

InitCompare ==
  /\ op = "needs_update"
  /\ pc = "nu"
  /\ nu_new \in ComparedRecords
  /\ nu_current \in ComparedRecords \cup {<< >>}
  /\ nu_result = "unset"
  /\ AllEndpoints
  /\ max_workers = 1
  /\ pe_entries = << >>
  /\ Idle
  /\ NoObjects
  /\ NoRules

\* The call returns.
needs_update_returns ==
  /\ pc = "nu"
  /\ nu_result' = IF needs_update(nu_new, nu_current) THEN "True" ELSE "False"
  /\ pc' = "done"
  /\ UNCHANGED << pipeVars, calls, postVars, diffVars, op, parsed_rules, remote0,
                  no_endpoint, failed_fetch, nu_new, nu_current, remote, ruleLocals, max_workers, poolSize,
                  tasks, raised, log, history >>

NextCompare == needs_update_returns

SpecCompare == InitCompare /\ [][NextCompare]_vars

---------------------------------------------------------------------------
(* Processor.analyze_results *)

\* 'status' in result and 'message' in result and 'name' in result
HasKeys(result) == {"status", "message", "name"} \subseteq DOMAIN result

\* Mutant: every success counts as created.
IsCreatedLoose(result) == HasKeys(result) /\ result.status = "success"

\* status 'success' with message 'Object processed': created_count += 1
IsCreated(result) ==
  HasKeys(result) /\ result.status = "success" /\ result.message = "Object processed"

\* Mutant: every success counts as already existing.
IsExistingLoose(result) == HasKeys(result) /\ result.status = "success"

IsExisting(result) ==
  HasKeys(result) /\ result.status = "success" /\ result.message # "Object processed"

IsError(result) == HasKeys(result) /\ result.status = "error creating object"

created_count(rs) == Len(SelectSeq(rs, IsCreated))
exists_count(rs) == Len(SelectSeq(rs, IsExisting))
error_count(rs) == Len(SelectSeq(rs, IsError))
error_objects(rs) ==
  LET q == SelectSeq(rs, IsError) IN [i \in 1..Len(q) |-> q[i].name]

\* The arguments log_summary receives from post_entries.
Summary(initial, rs) ==
  [initial |-> initial, created |-> created_count(rs), exists |-> exists_count(rs),
   errors |-> error_count(rs), names |-> error_objects(rs)]

---------------------------------------------------------------------------
(* api_handler.post for a create: what the gateway may answer *)

CreateResponses(item) ==
  { [status |-> "success", message |-> "Object processed", name |-> NameOf(item)],
    [status |-> "success", message |-> "Object already exists", name |-> NameOf(item)],
    [status |-> "error creating object", message |-> "rejected", name |-> NameOf(item)],
    [status |-> "error", message |-> "unexpected", name |-> NameOf(item)] }
  \cup { [status |-> "success", message |-> "Object processed"] }

---------------------------------------------------------------------------
(* Processor.post_entries / Processor.create_objects *)

\* The gateway's stores after it created item: a rule goes to the end of the
\* rulebase of the position posted to, an object to the records of its type.
WithRule(item) ==
  IF pe_target \in Positions
  THEN [remote EXCEPT ![pe_target] =
          Append(@, [name |-> NameOf(item), id |-> IdOf[NameOf(item)], folder |-> Scope])]
  ELSE remote

StoredObject(item) ==
  [k \in DOMAIN item \cup {"id", "folder"} |->
     IF k = "id" THEN ObjIdOf(NameOf(item), Scope)
     ELSE IF k = "folder" THEN S(Scope) ELSE item[k]]

WithObject(item) ==
  IF pe_target \in DOMAIN remoteObjs
  THEN [remoteObjs EXCEPT ![pe_target] = Append(@, StoredObject(item))]
  ELSE remoteObjs

\* The gateway stored the item it answers for.
Stores(r) == r.status = "success" /\ r.message = "Object processed"

CreateTask(item) == [kind |-> "create", item |-> item, st |-> "queued", out |-> "none",
                     resp |-> << >>]

\* Lines 43-54 and 75-80: the early return, the endpoint of lines 49 and 53,
\* and the submission of one post per entry to a pool of max_workers workers.
post_entries ==
  /\ pc = "pe_start"
  /\ IF pe_entries = << >>
     THEN /\ log' = log \cup {"no_entries"}
          /\ pc' = ret
          /\ UNCHANGED << tasks, poolSize, results, batchId, raised >>
     ELSE IF ~ get_endpoint(EntryClass(pe_target))
     THEN /\ raised' = "NotImplementedError"
          /\ pc' = "raised"
          /\ UNCHANGED << tasks, poolSize, results, batchId, log >>
     ELSE /\ tasks' = [i \in 1..Len(pe_entries) |-> CreateTask(pe_entries[i])]
          /\ poolSize' = max_workers
          /\ batchId' = batchId + 1
          /\ results' = << >>
          /\ pc' = "pe_creating"
          /\ UNCHANGED << log, raised >>
  /\ UNCHANGED << pipeVars, inflight, pe_entries, summaries, ret, diffVars, inputs, remote, ruleLocals,
                  max_workers, history >>

\* Lines 81-85: a post returns; as_completed hands its response to the loop.
CreateReturns(i) ==
  /\ pc = "pe_creating"
  /\ i \in Running
  /\ \E r \in CreateResponses(tasks[i].item) :
       /\ tasks' = [tasks EXCEPT ![i].st = "done", ![i].out = "returned", ![i].resp = <<r>>]
       /\ results' = Append(results, r)
       /\ remote' = IF Stores(r) THEN WithRule(tasks[i].item) ELSE remote
       /\ remoteObjs' = IF Stores(r) THEN WithObject(tasks[i].item) ELSE remoteObjs
  /\ inflight' = inflight \ {Call(i)}
  /\ UNCHANGED << fetch_workers, pe_target, loop_t, loop_i, puts, batchId, pe_entries,
                  summaries, ret, diffVars, inputs, pc, ruleLocals, max_workers, poolSize,
                  raised, log, history >>

\* Lines 86-87: a post raises; the error is logged and the loop goes on.
CreateRaises(i) ==
  /\ pc = "pe_creating"
  /\ i \in Running
  /\ tasks' = [tasks EXCEPT ![i].st = "done", ![i].out = "raised"]
  /\ log' = log \cup {"error_processing_object"}
  /\ inflight' = inflight \ {Call(i)}
  /\ UNCHANGED << pipeVars, batchId, postVars, diffVars, inputs, remote, pc, ruleLocals, max_workers,
                  poolSize, raised, history >>

\* Mutant: post_entries goes on without waiting for its futures.
JoinCreatesEarly ==
  /\ pc = "pe_creating"
  /\ summaries' = Append(summaries, Summary(Len(pe_entries), results))
  /\ log' = log \cup {"summary"}
  /\ pc' = ret
  /\ UNCHANGED << pipeVars, calls, pe_entries, results, ret, diffVars, inputs, remote,
                  ruleLocals, max_workers, poolSize, tasks, raised, history >>

\* Lines 56-60: every future is done; analyze_results, log_summary, return.
JoinCreates ==
  /\ pc = "pe_creating"
  /\ AllDone
  /\ summaries' = Append(summaries, Summary(Len(pe_entries), results))
  /\ log' = log \cup {"summary"}
  /\ pc' = ret
  /\ UNCHANGED << pipeVars, calls, pe_entries, results, ret, diffVars, inputs, remote, ruleLocals,
                  max_workers, poolSize, tasks, raised, history >>

EntryNames == <<"r1", "r2", "r3", "r4">>
EntryAt(i) == [name |-> S(EntryNames[i])]

\* post_entries on a list of entries.
InitPost ==
  /\ op = "post_entries"
  /\ pc = "pe_start"
  /\ pe_entries \in {[i \in 1..n |-> EntryAt(i)] : n \in 0..MaxEntries}
  /\ max_workers \in 1..MaxWorkers
  /\ Idle
  /\ NoCompare
  /\ AllEndpoints
  /\ NoObjects
  /\ NoRules

NextPost ==
  \/ post_entries
  \/ StartTask
  \/ \E i \in 1..Len(tasks) : CreateReturns(i)
  \/ \E i \in 1..Len(tasks) : CreateRaises(i)
  \/ JoinCreates

SpecPost == InitPost /\ [][NextPost]_vars

---------------------------------------------------------------------------
(* SCMObjectManager.process_objects / get_current_objects *)

FetchTask(T) == [kind |-> "fetch", type |-> T, st |-> "queued", out |-> "none"]

\* fetch_objects: whatever the gateway's get returns for the type.
fetch_objects(T) == remoteObjs[T]

\* Mutant: the map is started anew with each result.
WithKeyOnly(f, key, value) == [k \in {key} |-> value]

\* results[obj_type] = data
WithKey(f, key, value) ==
  [k \in DOMAIN f \cup {key} |-> IF k = key THEN value ELSE f[k]]

\* Lines 295-296 and 306-310: one fetch per object type is submitted to a pool
\* of max_workers (the parameter of process_objects) workers.
process_objects ==
  /\ pc = "po_start"
  /\ tasks' = [i \in 1..Len(ObjTypes) |-> FetchTask(ObjTypes[i])]
  /\ poolSize' = fetch_workers
  /\ batchId' = batchId + 1
  /\ pc' = "gco_fetching"
  /\ UNCHANGED << pipeVars, inflight, postVars, diffVars, inputs, remote, ruleLocals,
                  max_workers, raised, log, history >>

\* Lines 311-316: a fetch returns; its data is stored under its type.
FetchReturns(i) ==
  /\ pc = "gco_fetching"
  /\ i \in Running
  /\ tasks' = [tasks EXCEPT ![i].st = "done", ![i].out = "returned"]
  /\ current_objects' = WithKey(current_objects, tasks[i].type, fetch_objects(tasks[i].type))
  /\ inflight' = inflight \ {Call(i)}
  /\ UNCHANGED << pipeVars, batchId, postVars, parsed_data, new_entries, updated_entries,
                  inputs, remote, pc, ruleLocals, max_workers, poolSize, raised, log,
                  history >>

\* Mutant: a fetch that raises leaves an empty list under its type.
FetchRaisesAsEmpty(i) ==
  /\ pc = "gco_fetching"
  /\ i \in Running
  /\ tasks' = [tasks EXCEPT ![i].st = "done", ![i].out = "raised"]
  /\ log' = log \cup {"exception_fetching"}
  /\ failed_fetch' = failed_fetch \cup {tasks[i].type}
  /\ current_objects' = WithKey(current_objects, tasks[i].type, << >>)
  /\ inflight' = inflight \ {Call(i)}
  /\ UNCHANGED << pipeVars, batchId, postVars, parsed_data, new_entries, updated_entries,
                  given, remote, pc, ruleLocals, max_workers, poolSize, raised, history >>

\* Lines 317-318: a fetch raises; the error is logged, nothing is stored.
FetchRaises(i) ==
  /\ pc = "gco_fetching"
  /\ i \in Running
  /\ tasks' = [tasks EXCEPT ![i].st = "done", ![i].out = "raised"]
  /\ log' = log \cup {"exception_fetching"}
  /\ failed_fetch' = failed_fetch \cup {tasks[i].type}
  /\ inflight' = inflight \ {Call(i)}
  /\ UNCHANGED << pipeVars, batchId, postVars, diffVars, given, remote, pc, ruleLocals,
                  max_workers, poolSize, raised, history >>

\* Line 319: every fetch is done; get_current_objects returns its results.
JoinFetch ==
  /\ pc = "gco_fetching"
  /\ AllDone
  /\ pc' = "diff"
  /\ UNCHANGED << pipeVars, calls, postVars, diffVars, inputs, remote, ruleLocals,
                  max_workers, poolSize, tasks, raised, log, history >>

---------------------------------------------------------------------------
(* SCMObjectManager.post_new_entries *)

EntriesOf(f, T) == IF T \in DOMAIN f THEN f[T] ELSE << >>

\* any(new_entries.values())
AnyNew == \E T \in DOMAIN new_entries : new_entries[T] # << >>

\* Line 298 and one turn of the loop of lines 457-471: the creates of the next
\* object type that has new entries are handed to post_entries.
post_new_entries ==
  /\ pc = "post_new"
  /\ IF ~ AnyNew \/ loop_t > Len(ObjTypes)
     THEN /\ pc' = "upd"
          /\ loop_t' = 1
          /\ UNCHANGED << pe_entries, pe_target, ret, log >>
     ELSE IF EntriesOf(new_entries, ObjTypes[loop_t]) # << >>
     THEN /\ pe_entries' = new_entries[ObjTypes[loop_t]]
          /\ pe_target' = ObjTypes[loop_t]
          /\ ret' = "post_new"
          /\ pc' = "pe_start"
          /\ loop_t' = loop_t + 1
          /\ UNCHANGED log
     ELSE /\ log' = log \cup {"no_new_entries"}
          /\ loop_t' = loop_t + 1
          /\ UNCHANGED << pc, pe_entries, pe_target, ret >>
  /\ UNCHANGED << remoteObjs, fetch_workers, loop_i, puts, calls, results, summaries,
                  diffVars, inputs, remote, ruleLocals, max_workers, poolSize, tasks,
                  raised, history >>

---------------------------------------------------------------------------
(* SCMObjectManager.update_existing_entries *)

\* The put the control thread is making.
PutCall == [kind |-> "put", target |-> ObjTypes[loop_t], i |-> loop_i, batch |-> batchId]

\* endpoint + '/' + object_id, with the entry it carries.
PutOf(T, entry) == [type |-> T, name |-> NameOf(entry), id |-> entry["id"].s]

\* The gateway's records of type T after it applied the put of entry.
Merge(old, entry) ==
  [k \in DOMAIN old \cup DOMAIN entry |-> IF k \in DOMAIN entry THEN entry[k] ELSE old[k]]

PutApplied(T, entry) ==
  [remoteObjs EXCEPT ![T] =
     [k \in 1..Len(remoteObjs[T]) |->
        IF Get(remoteObjs[T][k], "id") = entry["id"]
        THEN Merge(remoteObjs[T][k], entry) ELSE remoteObjs[T][k]]]

\* Mutant: the entries are taken from the end of the list.
EntryFromEnd(entries, i) == entries[Len(entries) + 1 - i]

\* for entry in entries: the entry of turn i.
EntryOfTurn(entries, i) == entries[i]

\* Lines 423-435: the loops over the object types and their updated entries,
\* up to the next put; an entry without an id is skipped with a warning.
update_existing_entries ==
  /\ pc = "upd"
  /\ IF loop_t > Len(ObjTypes)
     THEN /\ pc' = "done"
          /\ UNCHANGED << loop_t, loop_i, puts, inflight, log, raised >>
     ELSE LET T == ObjTypes[loop_t]
              entries == EntriesOf(updated_entries, T)
          IN IF loop_i > Len(entries)
             THEN /\ loop_t' = loop_t + 1
                  /\ loop_i' = 1
                  /\ UNCHANGED << pc, puts, inflight, log, raised >>
             ELSE IF Falsy(Get(EntryOfTurn(entries, loop_i), "id"))
             THEN /\ loop_i' = loop_i + 1
                  /\ log' = log \cup {"object_id_not_found"}
                  /\ UNCHANGED << pc, loop_t, puts, inflight, raised >>
             ELSE IF ~ get_endpoint(T)
             THEN /\ raised' = "NotImplementedError"
                  /\ pc' = "raised"
                  /\ UNCHANGED << loop_t, loop_i, puts, inflight, log >>
             ELSE /\ puts' = Append(puts, PutOf(T, EntryOfTurn(entries, loop_i)))
                  /\ inflight' = inflight \cup {PutCall}
                  /\ pc' = "upd_put"
                  /\ UNCHANGED << loop_t, loop_i, log, raised >>
  /\ UNCHANGED << remoteObjs, fetch_workers, pe_target, batchId, postVars, diffVars,
                  inputs, remote, ruleLocals, max_workers, poolSize, tasks,
                  history >>

\* Lines 436-440: the put returns; success or failure is logged and the loop
\* goes on with the next entry.
PutReturns ==
  /\ pc = "upd_put"
  /\ LET T == ObjTypes[loop_t]
         entry == EntryOfTurn(updated_entries[T], loop_i)
     IN \/ /\ remoteObjs' = PutApplied(T, entry)
           /\ log' = log \cup {"updated"}
        \/ /\ remoteObjs' = remoteObjs
           /\ log' = log \cup {"failed_to_update"}
  /\ inflight' = inflight \ {PutCall}
  /\ loop_i' = loop_i + 1
  /\ pc' = "upd"
  /\ UNCHANGED << fetch_workers, pe_target, loop_t, puts, batchId, postVars, diffVars,
                  inputs, remote, ruleLocals, max_workers, poolSize, tasks, raised,
                  history >>

\* Line 436 is in no try block: a put that raises leaves update_existing_entries
\* and process_objects.
PutRaises ==
  /\ pc = "upd_put"
  /\ raised' = "PutError"
  /\ pc' = "raised"
  /\ inflight' = inflight \ {PutCall}
  /\ UNCHANGED << remoteObjs, fetch_workers, pe_target, loop_t, loop_i, puts, batchId,
                  postVars, diffVars, inputs, remote, ruleLocals, max_workers, poolSize,
                  tasks, log, history >>

---------------------------------------------------------------------------
(* SCMObjectManager.process_security_rules *)

\* Lines 484-487: the rules of both positions are fetched and filtered by
\* folder.
process_security_rules ==
  /\ pc = "psr_start"
  /\ rules_snapshot' = [p \in Positions |-> FolderFiltered(FetchRules(remote[p]))]
  /\ pos' = "pre"
  /\ pc' = "psr_create"
  /\ UNCHANGED << pipeVars, calls, postVars, diffVars, inputs, remote, original_rules,
                  current_rules, current_rule_ids, current_order, desired_order,
                  attempts, exitReason, max_workers, poolSize, tasks, raised, log,
                  history >>

\* [rule for rule in entries if rule['name'] not in current_rule_names]
rules_to_create(p) ==
  SelectSeq(parsed_rules[p], LAMBDA r : r.name \notin Range(NamesOf(rules_snapshot[p])))

RuleItem(r) == [name |-> S(r.name)]

\* One turn of the loop of lines 500-506, for position pos: the missing rules
\* are handed to post_entries with 4 workers; after 'post' the reordering of
\* 'pre' begins.
CreateRules ==
  /\ pc = "psr_create"
  /\ LET rules == rules_to_create(pos)
         next == IF pos = "pre" THEN "psr_create" ELSE "rin"
     IN IF rules # << >>
        THEN /\ max_workers' = RuleWorkers
             /\ pe_entries' = [i \in 1..Len(rules) |-> RuleItem(rules[i])]
             /\ pe_target' = pos
             /\ ret' = next
             /\ pc' = "pe_start"
             /\ UNCHANGED log
        ELSE /\ log' = log \cup {"no_new_rules"}
             /\ pc' = next
             /\ UNCHANGED << max_workers, pe_entries, pe_target, ret >>
  /\ pos' = IF pos = "pre" THEN "post" ELSE "pre"
  /\ UNCHANGED << remoteObjs, fetch_workers, loop_t, loop_i, puts, calls, results,
                  summaries, diffVars, inputs, remote, rules_snapshot, original_rules,
                  current_rules, current_rule_ids, current_order, desired_order,
                  attempts, exitReason, poolSize, tasks, raised, history >>

---------------------------------------------------------------------------
(* process_objects and process_security_rules from start to end *)

Obj(n, v) == [name |-> S(n), a |-> v]
Stored(n, v, f) == [name |-> S(n), id |-> ObjIdOf(n, f), folder |-> S(f), a |-> v]
StoredNoId(n, v, f) == [name |-> S(n), folder |-> S(f), a |-> v]

\* The desired records of every object type.
PipelineDesired == << Obj("o1", S("1")), Obj("o2", S("1")) >>

\* What the gateway may hold for an object type: nothing; o1 as desired; o1
\* and o2 with another value; the same with o1 lacking its id; o1 with
\* another value in a foreign folder; o1 with another value behind o3, which
\* nobody desires.
PipelineRemotes ==
  { << >>,
    << Stored("o1", S("1"), Scope) >>,
    << Stored("o1", S("2"), Scope), Stored("o2", S("2"), Scope) >>,
    << StoredNoId("o1", S("2"), Scope), Stored("o2", S("2"), Scope) >>,
    << Stored("o1", S("2"), OtherFolder) >>,
    << Stored("o3", S("2"), Scope), Stored("o1", S("2"), Scope) >> }

InitObjects ==
  /\ op = "process_objects"
  /\ pc = "po_start"
  /\ parsed_data = [T \in Range(ObjTypes) |-> PipelineDesired]
  /\ remoteObjs \in [Range(ObjTypes) -> PipelineRemotes]
  /\ no_endpoint \in {{}} \cup {{T} : T \in Range(ObjTypes)}
  /\ \A T \in no_endpoint : remoteObjs[T] = << >>
  /\ current_objects = << >>
  /\ fetch_workers \in 1..MaxWorkers
  /\ max_workers \in 1..MaxWorkers
  /\ pe_entries = << >>
  /\ Idle
  /\ NoCompare
  /\ NoRules

Rule(n) == [name |-> n, id |-> IdOf[n], folder |-> Scope]

PipelineRulesPre == { << [name |-> "A"], [name |-> "B"] >>, << [name |-> "B"], [name |-> "A"] >> }
PipelineRulesPost == { << >>, << [name |-> "C"] >> }
PipelineRemotePre ==
  { << >>, << Rule("B") >>, << Rule("B"), Rule("A") >>,
    << [name |-> "A", id |-> "id9", folder |-> OtherFolder], Rule("B") >>,
    << Rule("B"), Rule("C"), Rule("A") >> }

InitRules ==
  /\ op = "process_security_rules"
  /\ pc = "psr_start"
  /\ parsed_rules \in {[p \in Positions |-> IF p = "pre" THEN d ELSE e] :
                         d \in PipelineRulesPre, e \in PipelineRulesPost}
  /\ remote \in {[p \in Positions |-> IF p = "pre" THEN r ELSE << >>] :
                   r \in PipelineRemotePre}
  /\ no_endpoint \in {{}, {SecObj}}
  /\ no_endpoint # {} => remote["pre"] = << >>
  /\ remote0 = remote
  /\ rules_snapshot = [p \in Positions |-> << >>]
  /\ max_workers \in 1..MaxWorkers
  /\ pe_entries = << >>
  /\ NoObjects
  /\ Idle
  /\ NoCompare

InitPipeline == InitObjects \/ InitRules

NextPipeline ==
  \/ process_objects
  \/ \E i \in 1..Len(tasks) : FetchReturns(i)
  \/ \E i \in 1..Len(tasks) : FetchRaises(i)
  \/ JoinFetch
  \/ get_new_and_updated_entries
  \/ post_new_entries
  \/ post_entries
  \/ StartTask
  \/ \E i \in 1..Len(tasks) : CreateReturns(i)
  \/ \E i \in 1..Len(tasks) : CreateRaises(i)
  \/ JoinCreates
  \/ update_existing_entries
  \/ PutReturns
  \/ PutRaises
  \/ process_security_rules
  \/ CreateRules
  \/ reorder_rules_if_needed
  \/ CheckOrder
  \/ ReorderLoop
  \/ \E i \in 1..Len(tasks) : MoveSucceeds(i)
  \/ \E i \in 1..Len(tasks) : MoveFails(i)
  \/ \E i \in 1..Len(tasks) : MoveRaises(i)
  \/ JoinMoves
  \/ Refetch

SpecPipeline == InitPipeline /\ [][NextPipeline]_vars

---------------------------------------------------------------------------
(* States of the reconciler of one position (spec 4.3) *)

Stopped == pc \in {"done", "raised"}
DONE == pc = "done" /\ exitReason \in {"converged", "in_order"}
GAVE_UP == pc = "done" /\ exitReason \in {"no_moves", "budget"}

\* The remote order, default entries and foreign folders left out.
RemoteOrder == SelectSeq(NamesOf(SelectSeq(remote[pos], InScope)), NotDefault)
DesiredNames == SelectSeq(NamesOf(parsed_rules[pos]), NotDefault)

\* C1: check_and_reorder_rules submits at most 8 move batches and, when every
\* gateway call returns, ends in DONE or GAVE_UP (never by an exception).
C1_EndsDoneOrGaveUp ==
  /\ nBatch <= max_attempts
  /\ Stopped => (DONE \/ GAVE_UP)

\* What the code keeps of C1: at most 8 batches, and the engine stops even
\* when the remote order oscillates for ever.
AtMostEightBatches == nBatch <= max_attempts /\ attempts <= max_attempts
EventuallyStops == <>[]Stopped

\* The case of C2: the desired rules are the three ordinary rule names and
\* the remote holds the same three rules of the scope, in any order.
C2Case ==
  /\ Range(NamesOf(parsed_rules["pre"])) = {"A", "B", "C"}
  /\ Range(FetchedOrder(FolderFiltered(remote0["pre"]))) = {"A", "B", "C"}

\* C2: for a remote order that is a permutation of the desired order over 3
\* rule names, with atomic moves completing in any order, the reconciler stays
\* within 8 attempts, raises nothing and stops with the remote order equal to
\* the desired order.
C2_Converges ==
  /\ [](C2Case => attempts <= max_attempts /\ pc # "raised")
  /\ [](C2Case => <>[](DONE /\ RemoteOrder = NamesOf(parsed_rules["pre"])))

C2_Witness ==
  /\ C2Case
  /\ NamesOf(remote0["pre"]) = <<"A", "B", "C">>
  /\ NamesOf(parsed_rules["pre"]) = <<"C", "A", "B">>
  /\ pc = "done"
  /\ nBatch >= 1
  /\ RemoteOrder = <<"C", "A", "B">>

\* C3: the order a move batch is computed from was read after every move
\* submitted before that batch had completed.
C3_MovesFromFreshOrder ==
  pc = "rr_moving" => batchBasis = batchPrior

C3_Witness ==
  /\ pc = "rr_moving"
  /\ nBatch >= 2
  /\ Running # {}
  /\ batchPrior > 0

\* C10: when the remote order (default entries excluded) equals the desired
\* order, the reconciler's step issues no move and at most one fetch and
\* ends in DONE.
C10_InOrderNoMoves ==
  [][(RemoteOrder = DesiredNames /\ pc' # pc) =>
       /\ pc = "car_fetch" =>
            /\ pc' = "done" \/ (pc' = "rin" /\ pos' # pos)
            /\ exitReason' = "converged"
            /\ nFetch' = 1 /\ nBatch' = 0 /\ movesSubmitted' = movesSubmitted
       /\ pc = "rin" =>
            /\ \/ pc' = "car_fetch"
               \/ /\ pc' = "done" \/ (pc' = "rin" /\ pos' # pos)
                  /\ exitReason' = "in_order"
            /\ nFetch' = 0 /\ nBatch' = 0 /\ movesSubmitted' = movesSubmitted]_vars

C10_Witness ==
  /\ pc = "done"
  /\ nFetch = 1
  /\ nBatch = 0
  /\ exitReason = "converged"
  /\ RemoteOrder = DesiredNames
  /\ Len(RemoteOrder) >= 2
  /\ "default" \in Range(NamesOf(remote[pos]))

---------------------------------------------------------------------------
(* Diff engine *)

NamesIn(q) == {NameOf(q[i]) : i \in 1..Len(q)}

\* C4: after get_new_and_updated_entries, a desired record is in the new list
\* if and only if no current record has its name, every updated record has a
\* name present in current, and no name is both new and updated.
C4_Classification ==
  pc = "done" /\ op = "get_new_and_updated_entries" =>
    \A T \in DOMAIN parsed_data :
      LET new == EntriesOf(new_entries, T)
          upd == EntriesOf(updated_entries, T)
          cur == NamesIn(current_objects[T])
      IN /\ \A i \in 1..Len(parsed_data[T]) :
              (parsed_data[T][i] \in Range(new)) <=> (NameOf(parsed_data[T][i]) \notin cur)
         /\ NamesIn(upd) \subseteq cur
         /\ NamesIn(new) \cap NamesIn(upd) = {}
         /\ Len(new) + Len(upd) <= Len(parsed_data[T])

C4_Witness ==
  /\ pc = "done" /\ op = "get_new_and_updated_entries"
  /\ Len(EntriesOf(new_entries, "Tag")) = 1
  /\ Len(EntriesOf(updated_entries, "Tag")) = 1
  /\ Len(current_objects["Tag"]) = 2

---------------------------------------------------------------------------
(* Create batches *)

\* The create calls of the batch that returned a response, and those that
\* raised.
Returned == {i \in 1..Len(tasks) : tasks[i].kind = "create" /\ tasks[i].out = "returned"}
Thrown == {i \in 1..Len(tasks) : tasks[i].kind = "create" /\ tasks[i].out = "raised"}
Resp(i) == tasks[i].resp[1]
Complete(i) == {"status", "message", "name"} \subseteq DOMAIN Resp(i)

LastSummary == summaries[Len(summaries)]
PostDone == op = "post_entries" /\ pc = "done" /\ pe_entries # << >>

SuccessProcessed(I) ==
  {i \in I : Resp(i).status = "success" /\ Resp(i).message = "Object processed"}
SuccessOther(I) ==
  {i \in I : Resp(i).status = "success" /\ Resp(i).message # "Object processed"}
ErrorCreating(I) == {i \in I : Resp(i).status = "error creating object"}

C6_ThrownCountedAsFailed ==
  PostDone =>
    /\ LastSummary.errors =
         Cardinality(ErrorCreating({i \in Returned : Complete(i)})) + Cardinality(Thrown)
    /\ \A i \in 1..Len(tasks) : tasks[i].st = "done"
    /\ Len(results) = Cardinality(Returned)

\* What the code keeps of C6: the siblings of a call that throws are all
\* issued and their responses all reach analyze_results.
SiblingsStillCounted ==
  PostDone =>
    /\ Len(tasks) = Len(pe_entries)
    /\ \A i \in 1..Len(tasks) : tasks[i].st = "done"
    /\ \A i \in Returned : Resp(i) \in Range(results)
    /\ Len(results) = Cardinality(Returned)

---------------------------------------------------------------------------
(* Error propagation, phases and pools of the whole operations *)

\* C7: a put or a move that raises does not end the operation it belongs to:
\* its error never reaches the caller.
C7_PutOrMoveErrorContained == raised \notin {"PutError", "MoveError"}

\* What the code keeps of C7: a put or a move that returns a failure status
\* is logged and the operation goes on to its end.
FailureStatusContained ==
  (log \cap {"failed_to_update", "move_error"} # {} /\ raised = "none") =>
     pc # "raised"

\* C8: the remote calls in flight all belong to the batch launched last and
\* to one phase (creates to one object type or position): creates only while
\* post_entries waits for that very batch,
\* a put only when no create, fetch or move is in flight, moves only while
\* reorder_rules waits for its batch.
C8_JoinBarrier ==
  /\ \A c, d \in inflight :
       /\ c.kind = d.kind /\ c.batch = d.batch
       /\ c.kind # "fetch" => c.target = d.target
  /\ \A c \in inflight :
       /\ c.batch = batchId
       /\ c.kind = "fetch" => pc = "gco_fetching"
       /\ c.kind = "create" => pc = "pe_creating" /\ c.target = pe_target
       /\ c.kind = "put" => pc = "upd_put" /\ inflight = {c}
       /\ c.kind = "move" => pc = "rr_moving" /\ c.target = pos

\* A put in flight after the create batches of both object types were joined.
C8_Witness ==
  /\ op = "process_objects"
  /\ pc = "upd_put"
  /\ inflight = {PutCall}
  /\ Len(summaries) = Len(ObjTypes)
  /\ batchId = 1 + Len(ObjTypes)

\* C9: while a fetch, create or move batch is open, the calls in flight are
\* at most the max_workers the batch's pool was built with.
C9_BoundedInFlight ==
  pc \in {"gco_fetching", "pe_creating", "rr_moving"} =>
    /\ Cardinality(inflight) <= poolSize
    /\ Cardinality(Running) = Cardinality(inflight)

\* A full pool with a create still queued.
C9_Witness ==
  /\ pc = "pe_creating"
  /\ Cardinality(inflight) = poolSize
  /\ Queued # {}

---------------------------------------------------------------------------
(* Reconciler: the example [B,C,A] against [A,B,C] *)

\* The case of C11: the remote holds B, C, A of the scope in this order and
\* the desired order is A, B, C.
C11Case ==
  /\ NamesOf(remote0["pre"]) = <<"B", "C", "A">>
  /\ \A i \in 1..Len(remote0["pre"]) : InScope(remote0["pre"][i])
  /\ NamesOf(parsed_rules["pre"]) = <<"A", "B", "C">>

\* C11 as stated: from [B,C,A] to [A,B,C] the reconciler needs more than one
\* move batch and converges within 8 attempts.
C11_NeedsMoreThanOneBatch ==
  (C11Case /\ Stopped) =>
     /\ nBatch > 1
     /\ attempts <= max_attempts
     /\ DONE /\ RemoteOrder = <<"A", "B", "C">>

\* C11, amended: from [B,C,A] to [A,B,C], with atomic moves, the reconciler
\* converges to [A,B,C] within 8 attempts, and it does so with exactly one
\* move batch holding the single move of A before B.
C11_ConvergesInOneBatch ==
  /\ [](C11Case => nBatch <= 1 /\ movesSubmitted <= 1 /\ attempts <= max_attempts
                     /\ pc # "raised")
  /\ [](C11Case /\ pc = "rr_moving" =>
          Len(tasks) = 1 /\ tasks[1].subject = "A" /\ tasks[1].before = "B")
  /\ [](C11Case => <>[](DONE /\ RemoteOrder = <<"A", "B", "C">> /\ nBatch = 1))

C11_Witness ==
  /\ C11Case
  /\ pc = "done"
  /\ nBatch = 1
  /\ movesDone = 1
  /\ attempts = 1
  /\ RemoteOrder = <<"A", "B", "C">>

---------------------------------------------------------------------------
(* Reconciler: 'default' entries *)

\* C12: in every comparison of the two orders 'default' is left out of both
\* sequences, so it is in neither order of reorder_rules, is neither the
\* subject nor the destination of a move, and no lookup fails.
C12_DefaultExcluded ==
  /\ pc \in {"rr_loop", "rr_moving", "rr_refetch"} =>
       "default" \notin Range(current_order) \cup Range(desired_order)
  /\ \A i \in 1..Len(tasks) :
       tasks[i].kind = "move" => tasks[i].subject # "default" /\ tasks[i].before # "default"
  /\ raised # "ValueError"

\* What the code keeps of C12: the comparison of check_and_reorder_rules and
\* every refetch of reorder_rules leave 'default' out of the current order.
FetchedOrderHasNoDefault ==
  (pc = "rr_loop" /\ nFetch >= 2) => "default" \notin Range(current_order)

---------------------------------------------------------------------------
(* Folder scope of the current records *)

ScopedNamesIn(q) == {NameOf(q[i]) : i \in {k \in 1..Len(q) : Get(q[k], "folder") = S(Scope)}}

\* C13: only current records whose folder is the target scope take part in
\* the diff: a desired record is kept out of the new list, or queued as
\* updated, only when a current record of the scope has its name.
C13_DiffUsesScopedRecords ==
  pc = "done" /\ op = "get_new_and_updated_entries" =>
    \A T \in DOMAIN parsed_data :
      /\ \A i \in 1..Len(parsed_data[T]) :
           parsed_data[T][i] \notin Range(EntriesOf(new_entries, T)) =>
             NameOf(parsed_data[T][i]) \in ScopedNamesIn(current_objects[T])
      /\ NamesIn(EntriesOf(updated_entries, T)) \subseteq ScopedNamesIn(current_objects[T])

\* What the code keeps of C13: the rules the reconciler compares and the
\* names of its fetched current order are all of the target scope.
RulesComparedAreScoped ==
  /\ \A i \in 1..Len(current_rules) : InScope(current_rules[i])
  /\ \A p \in Positions : \A i \in 1..Len(rules_snapshot[p]) : InScope(rules_snapshot[p][i])

---------------------------------------------------------------------------
(* Updates *)

\* process_objects has computed its two lists.
Diffed == op = "process_objects" /\ pc \notin {"po_start", "gco_fetching", "diff"}

\* The id (None when it has none) of the first fetched record of type T
\* named n.
FetchedId(T, n) ==
  LET cur == current_objects[T]
      j == CHOOSE k \in 1..Len(cur) :
             NameOf(cur[k]) = n /\ \A h \in 1..(k - 1) : NameOf(cur[h]) # n
  IN Get(cur[j], "id")

\* C14: every entry queued for update carries the id of the fetched record
\* that has its name, and every put issued is the put of a queued entry, to
\* the endpoint ending in that id.
C14_UpdateCarriesCurrentId ==
  Diffed =>
    /\ \A T \in DOMAIN updated_entries : \A i \in 1..Len(updated_entries[T]) :
         LET e == updated_entries[T][i]
         IN /\ NameOf(e) \in NamesIn(current_objects[T])
            /\ e["id"] = FetchedId(T, NameOf(e))
    /\ \A k \in 1..Len(puts) :
         /\ puts[k].type \in DOMAIN updated_entries
         /\ puts[k].name \in NamesIn(updated_entries[puts[k].type])
         /\ S(puts[k].id) = FetchedId(puts[k].type, puts[k].name)

\* Puts to a record of the scope and to a record of a foreign folder.
C14_Witness ==
  /\ Diffed
  /\ pc = "done"
  /\ Len(puts) >= 2
  /\ \E k \in 1..Len(puts) : puts[k].id = "id-o1-F2"
  /\ \E k \in 1..Len(puts) : puts[k].id = "id-o2-F1"

---------------------------------------------------------------------------
(* needs_update *)

Compared == op = "needs_update" /\ pc = "done"

\* The value of field a, None when the record has no such field.
FieldA(o) == IF "a" \in DOMAIN o THEN o["a"] ELSE None

\* C15: a record compared with an identical copy of itself needs no update.
C15_SameRecordNoUpdate ==
  (Compared /\ nu_new = nu_current) => nu_result = "False"

\* A record holding a dict that holds a list.
C15_Witness ==
  /\ Compared
  /\ nu_new = nu_current
  /\ FieldA(nu_new) = D(<<Entry("x", L(<<S("1"), S("2")>>))>>)
  /\ nu_result = "False"

\* The current record is a fetched record (it has a name) without field a.
CurrentLacksA == nu_current # << >> /\ "a" \notin DOMAIN nu_current

\* C16: against an absent current value, an empty desired sequence is no
\* difference and a non-empty desired sequence is one.
C16_EmptyListVsAbsent ==
  (Compared /\ CurrentLacksA /\ IsList(FieldA(nu_new))) =>
     (nu_result = "False" <=> FieldA(nu_new) = EmptyList)

\* needsUpdate({a: [1]}, {a: absent}) is true.
C16_Witness ==
  /\ Compared
  /\ CurrentLacksA
  /\ FieldA(nu_new) = L(<<S("1")>>)
  /\ nu_result = "True"

\* needsUpdate({a: []}, {a: absent}) is false.
EmptyListCaseReached ==
  /\ Compared
  /\ CurrentLacksA
  /\ FieldA(nu_new) = EmptyList
  /\ nu_result = "False"

\* C17: an empty mapping against an absent value is no difference, at the
\* top level of a record and under a key of a nested mapping.
C17_EmptyDictVsAbsent ==
  Compared =>
    /\ (CurrentLacksA /\ FieldA(nu_new) = EmptyDict) => nu_result = "False"
    /\ (FieldA(nu_new) = D(<<Entry("x", EmptyDict)>>)
          /\ FieldA(nu_current) \in {EmptyDict, D(<<Entry("x", None)>>)}) =>
         nu_result = "False"

\* What the code keeps of C17: a field the desired record does not have is
\* never compared, whatever the current record holds for it.
AbsentDesiredFieldIgnored ==
  (Compared /\ "a" \notin DOMAIN nu_new) => nu_result = "False"

---------------------------------------------------------------------------
(* get_current_objects *)

\* C18: in the result map of get_current_objects a type is present exactly
\* when its fetch returned, with the records fetched, and absent when its
\* fetch raised, in every completion order.
C18_FailedFetchAbsent ==
  pc \in {"gco_fetching", "diff"} =>
    /\ \A i \in 1..Len(tasks) :
         /\ tasks[i].out = "returned" <=> tasks[i].type \in DOMAIN current_objects
         /\ tasks[i].out = "returned" => current_objects[tasks[i].type] = remoteObjs[tasks[i].type]
    /\ DOMAIN current_objects \subseteq Range(ObjTypes)
    /\ pc = "diff" => \A i \in 1..Len(tasks) : tasks[i].out \in {"returned", "raised"}

\* The fetch of the first type raised, the fetch of the second returned its
\* records.
C18_Witness ==
  /\ pc = "diff"
  /\ tasks[1].out = "raised"
  /\ tasks[2].out = "returned"
  /\ DOMAIN current_objects = {ObjTypes[2]}
  /\ Len(current_objects[ObjTypes[2]]) = 2

---------------------------------------------------------------------------
(* update_existing_entries *)

IsPrefix(a, b) == Len(a) <= Len(b) /\ \A i \in 1..Len(a) : a[i] = b[i]

HasId(entry) == ~ Falsy(Get(entry, "id"))

\* The names of the puts issued for type T, in the order of their issue.
PutNames(T) ==
  LET q == SelectSeq(puts, LAMBDA u : u.type = T) IN [i \in 1..Len(q) |-> q[i].name]

\* The names of the updated entries of type T that carry an id, in the order
\* of the list.
UpdatableNames(T) ==
  LET q == SelectSeq(EntriesOf(updated_entries, T), HasId)
  IN [i \in 1..Len(q) |-> NameOf(q[i])]

\* C19: at most one put is in flight, and the puts of a type are issued in
\* the order of its updated-entries list.
C19_PutsSequentialInOrder ==
  /\ Cardinality({c \in inflight : c.kind = "put"}) <= 1
  /\ Diffed => \A i \in 1..Len(ObjTypes) : IsPrefix(PutNames(ObjTypes[i]), UpdatableNames(ObjTypes[i]))

\* The second put of a type is in flight.
C19_Witness ==
  /\ pc = "upd_put"
  /\ Cardinality(inflight) = 1
  /\ PutNames(ObjTypes[1]) = <<"o1", "o2">>

\* The updated entries of type T the loop has taken so far.
TakenEntries(T) ==
  LET entries == EntriesOf(updated_entries, T)
      k == IF loop_t > Len(ObjTypes) THEN Len(entries)
           ELSE IF T = ObjTypes[loop_t]
           THEN (IF pc = "upd_put" THEN loop_i ELSE loop_i - 1)
           ELSE IF \E j \in 1..(loop_t - 1) : ObjTypes[j] = T THEN Len(entries)
           ELSE 0
  IN SubSeq(entries, 1, IF k <= Len(entries) THEN k ELSE Len(entries))

TakenWithId(T) ==
  LET q == SelectSeq(TakenEntries(T), HasId) IN [i \in 1..Len(q) |-> NameOf(q[i])]

\* C20: an entry without an id gets no put, and the loop goes on: every
\* entry with an id that the loop has taken, also after an entry without
\* one, got its put; when update_existing_entries returns these are all the
\* entries with an id.
C20_MissingIdSkipped ==
  (op = "process_objects" /\ pc \in {"upd", "upd_put", "done"}) =>
    /\ \A k \in 1..Len(puts) : puts[k].id # ""
    /\ \A i \in 1..Len(ObjTypes) : PutNames(ObjTypes[i]) = TakenWithId(ObjTypes[i])
    /\ pc = "done" =>
         \A i \in 1..Len(ObjTypes) : PutNames(ObjTypes[i]) = UpdatableNames(ObjTypes[i])

\* o1 has no id and was skipped with a warning, o2 after it was put.
C20_Witness ==
  /\ op = "process_objects"
  /\ pc = "done"
  /\ "object_id_not_found" \in log
  /\ \E i \in 1..Len(ObjTypes) :
       /\ Len(EntriesOf(updated_entries, ObjTypes[i])) = 2
       /\ ~ HasId(updated_entries[ObjTypes[i]][1])
       /\ PutNames(ObjTypes[i]) = <<"o2">>

---------------------------------------------------------------------------
(* Reconciler: how it stops *)

\* The log record that would report a mismatch left behind.  No statement of
\* reorder_rules or check_and_reorder_rules writes one: their log records
\* are "reordering" (line 227), the prepared moves, the workers in use and
\* "move_error" (line 192).
MismatchReport == "order_mismatch"

\* C21: when the reconciler stops with the remote order different from the
\* desired order, it has logged the mismatch and raises nothing.
C21_MismatchLogged ==
  (Stopped /\ RemoteOrder # DesiredNames) =>
     /\ pc = "done"
     /\ MismatchReport \in log

\* What the code keeps of C21: a stop on the attempt budget or on an empty
\* move list is a return, not an exception.
GaveUpReturns == GAVE_UP => raised = "none"

---------------------------------------------------------------------------
(* A class without an endpoint *)

\* C22: for a class whose endpoint is not defined, fetch, create, update and
\* reorder fail at once and no remote call is issued for that class: no call
\* in flight is directed at a class without an endpoint.
C22_NoCallWithoutEndpoint ==
  \A c \in inflight : get_endpoint(EntryClass(c.target))

\* What does hold: a post, a put or a move is never issued for a class
\* without an endpoint, and NotImplementedError has no other cause.
EndpointCheckedOutsideFetch ==
  /\ \A c \in inflight : c.kind # "fetch" => get_endpoint(EntryClass(c.target))
  /\ raised = "NotImplementedError" => no_endpoint # {}

\* The create of a class without an endpoint has failed.
CreateFailedFast == raised = "NotImplementedError" /\ pe_entries # << >>

---------------------------------------------------------------------------
(* Remote objects that nobody desires *)

DesiredObjNames(T) ==
  IF T \in DOMAIN parsed_data THEN CurrentNames(parsed_data[T]) ELSE {}

DesiredRuleNames(p) == Range(NamesOf(parsed_rules[p]))

DesiredNamesOf(target) ==
  IF target \in Positions THEN DesiredRuleNames(target) ELSE DesiredObjNames(target)

\* The calls under way and the puts made name desired entries only, by name
\* and by id.
OnlyDesiredCalled ==
  /\ \A c \in inflight : c.kind \in {"fetch", "create", "put", "move"}
  /\ pc = "pe_creating" =>
       \A i \in 1..Len(tasks) : NameOf(tasks[i].item) \in DesiredNamesOf(pe_target)
  /\ pc = "rr_moving" =>
       \A i \in 1..Len(tasks) :
          /\ {tasks[i].subject, tasks[i].before} \subseteq DesiredRuleNames(pos)
          /\ \A k \in 1..Len(remote[pos]) :
               remote[pos][k].id \in {tasks[i].rule, tasks[i].dest}
                  => remote[pos][k].name \in DesiredRuleNames(pos)
  /\ \A i \in 1..Len(puts) :
          /\ puts[i].name \in DesiredObjNames(puts[i].type)
          /\ \A k \in 1..Len(remoteObjs[puts[i].type]) :
               Get(remoteObjs[puts[i].type][k], "id") = S(puts[i].id)
                  => NameOf(remoteObjs[puts[i].type][k]) \in DesiredObjNames(puts[i].type)

\* Every record whose name is not desired is still there, as it was, after
\* the step.
UndesiredKept ==
  /\ \A T \in DOMAIN remoteObjs : \A k \in 1..Len(remoteObjs[T]) :
       NameOf(remoteObjs[T][k]) \notin DesiredObjNames(T)
          => remoteObjs[T][k] \in Range(remoteObjs'[T])
  /\ \A p \in Positions : \A k \in 1..Len(remote[p]) :
       remote[p][k].name \notin DesiredRuleNames(p)
          => remote[p][k] \in Range(remote'[p])

\* C23: the engine only creates and updates desired entries and moves desired
\* rules; a remote object whose name is not desired is never deleted, never
\* updated and never the subject or the destination of a move.
C23_UndesiredUntouched == [] OnlyDesiredCalled /\ [][UndesiredKept]_vars

\* An undesired object sits in the gateway while a put of its type is made.
C23_Witness ==
  /\ pc = "upd_put"
  /\ \E k \in 1..Len(remoteObjs[ObjTypes[loop_t]]) :
       NameOf(remoteObjs[ObjTypes[loop_t]][k]) \notin DesiredObjNames(ObjTypes[loop_t])

\* An undesired rule sits in the rulebase while a move has been made.
UndesiredRuleBypassed ==
  /\ movesDone > 0
  /\ \E k \in 1..Len(remote["pre"]) : remote["pre"][k].name \notin DesiredRuleNames("pre")

---------------------------------------------------------------------------
(* Reconciler: the moves of one iteration *)

InReorder == pc \in {"rr_loop", "rr_moving", "rr_refetch"}

\* The rules of the position that the folder holds.
ScopedRemote == SelectSeq(remote[pos], InScope)

\* (a, b) is a pair of neighbours of desired_order that current_order inverts.
Inverted(a, b) ==
  /\ \E i \in 1..(Len(desired_order) - 1) : desired_order[i] = a /\ desired_order[i + 1] = b
  /\ \E j, k \in 1..Len(current_order) :
       current_order[j] = a /\ current_order[k] = b /\ j > k

\* Some move of the batch relocates a before b.
Scheduled(a, b) ==
  \E i \in 1..Len(tasks) : tasks[i].subject = a /\ tasks[i].before = b

\* C24: in each iteration of reorder_rules desired_order is the desired name
\* sequence restricted to the names present remotely; the batch holds a move
\* of a before b exactly for the neighbours (a, b) of desired_order with a
\* behind b in current_order; each move carries the remote ids of a and b and
\* no rule is the subject of two moves of a batch.
C24_MovesAreInvertedNeighbours ==
  /\ InReorder =>
       desired_order = SelectSeq(NamesOf(parsed_rules[pos]),
                                 LAMBDA n : n \in Range(NamesOf(ScopedRemote)))
  /\ pc = "rr_moving" =>
       /\ \A a, b \in RuleNames : Scheduled(a, b) <=> Inverted(a, b)
       /\ \A i \in 1..Len(tasks) :
            /\ [name |-> tasks[i].subject, id |-> tasks[i].rule, folder |-> Scope]
                 \in Range(ScopedRemote)
            /\ [name |-> tasks[i].before, id |-> tasks[i].dest, folder |-> Scope]
                 \in Range(ScopedRemote)
       /\ \A i, j \in 1..Len(tasks) : tasks[i].subject = tasks[j].subject => i = j

\* A batch of two moves, computed from an order that inverts both pairs of
\* neighbours of three rules.
C24_Witness ==
  /\ pc = "rr_moving"
  /\ Len(tasks) = 2
  /\ Len(desired_order) = 3

\* A batch computed while a desired rule is missing remotely.
RestrictedOrderReached ==
  /\ pc = "rr_moving"
  /\ Len(desired_order) < Len(parsed_rules[pos])

---------------------------------------------------------------------------
(* Reconciler: an iteration without moves *)

\* An iteration begins on orders that differ and finds no pair to move.
NothingToMove ==
  /\ pc = "rr_loop"
  /\ attempts < max_attempts
  /\ current_order # desired_order
  /\ ~ \E a, b \in RuleNames : Inverted(a, b)

\* C25: an iteration of reorder_rules that schedules no move while the orders
\* still differ ends the reconciler at once, with no move and no further
\* fetch; nothing happens after the reconciler has stopped.
C25_NoMovesStopsAtOnce ==
  [][/\ NothingToMove =>
          /\ Stopped'
          /\ UNCHANGED << nFetch, movesSubmitted, nBatch, remote, inflight >>
     /\ ~ Stopped]_vars

\* The remote holds a rule that is not desired between two desired rules in
\* order: the reconciler has stopped on orders that differ.
C25_Witness ==
  /\ pc = "done"
  /\ exitReason = "no_moves"
  /\ current_order # desired_order
  /\ \E n \in Range(current_order) : n \notin Range(desired_order)

---------------------------------------------------------------------------
(* Reconciler: what reorder_rules returns *)

\* reorder_rules returns to check_and_reorder_rules.
ReorderReturns == pc = "rr_loop" /\ pc' \notin {"rr_loop", "rr_moving", "raised"}

\* C26: reorder_rules returns true exactly when it submitted a move and
\* false when it submitted none, and check_and_reorder_rules fetches and
\* checks again exactly on true.
C26_ReturnTellsMoves ==
  [][ReorderReturns =>
       /\ ReorderReturn(nBatch > 0) \in {"True", "False"}
       /\ Truthy(ReorderReturn(nBatch > 0)) <=> nBatch > 0
       /\ pc' = "car_fetch" <=> nBatch > 0]_vars

\* What the code does: whatever reorder_rules did, the caller's loop ends
\* when it returns.
ReturnEndsTheLoop == [][ReorderReturns => pc' = "done"]_vars

---------------------------------------------------------------------------
(* process_objects: an object type whose fetch failed *)

\* C27: when the fetch of an object type fails in process_objects, no create
\* and no update is issued for that type in the run: the type is not diffed,
\* it is never the target of post_entries, of a call in flight or of a put.
C27_FailedFetchNoWrites ==
  \A T \in failed_fetch :
     /\ T \notin DOMAIN new_entries
     /\ T \notin DOMAIN updated_entries
     /\ pe_target # T
     /\ \A c \in inflight : c.kind \in {"create", "put"} => c.target # T
     /\ \A i \in 1..Len(puts) : puts[i].type # T

\* The fetch of the first type failed and the gateway holds none of its
\* desired objects; the run ended after a put for the second type.
C27_Witness ==
  /\ pc = "done"
  /\ failed_fetch = {ObjTypes[1]}
  /\ remoteObjs[ObjTypes[1]] = << >>
  /\ puts # << >>

---------------------------------------------------------------------------
(* post_entries: the three counts together *)

\* How many of the three counts the response r adds to.
CountsHit(r) == created_count(<< r >>) + exists_count(<< r >>) + error_count(<< r >>)

\* C28: after post_entries on n entries created + existing + failed <= n,
\* every gateway response adds to at most one of the three counts, and the
\* error list holds as many names as the failed count, whatever mix of
\* well-formed responses, malformed responses and raised errors came back.
C28_CountsBounded ==
  PostDone =>
    /\ LastSummary.initial = Len(pe_entries)
    /\ LastSummary.created + LastSummary.exists + LastSummary.errors
         <= Cardinality(Returned)
    /\ Cardinality(Returned) <= Len(pe_entries)
    /\ \A i \in Returned : CountsHit(Resp(i)) <= 1
    /\ Len(LastSummary.names) = LastSummary.errors

\* Two entries: one post raised and the other returned a response without
\* a name, so that no count moved.
C28_Witness ==
  /\ PostDone
  /\ Len(pe_entries) = 2
  /\ Thrown # {}
  /\ \E i \in Returned : ~ Complete(i)
  /\ LastSummary.created + LastSummary.exists + LastSummary.errors = 0

===========================================================================
